---- MODULE Spec2Model ----
(***************************************************************************)
(* LangForge translation engine (core/translator.py): the placeholder     *)
(* codec, the placeholder validator and repairer, and the per-language     *)
(* and per-project translation loops over gettext catalogs.               *)
(*                                                                         *)
(* Texts are sequences of one-character strings.                           *)
(***************************************************************************)
EXTENDS Integers, Sequences, FiniteSets, TLC

-----------------------------------------------------------------------------
(* Text helpers: Python str slicing, concatenation, replace, rstrip.       *)

Min(a, b) == IF a < b THEN a ELSE b

Max(a, b) == IF a > b THEN a ELSE b

\* Python text[start:end] with 0-based offsets, clamped as slices are.
Slice(t, start, end) ==
    LET s == Min(Max(start, 0), Len(t))
        e == Min(Max(end, 0), Len(t))
    IN  IF e <= s THEN << >> ELSE SubSeq(t, s + 1, e)

\* Whether pat occurs in t starting at 1-based position i.
OccursAt(t, pat, i) ==
    /\ i >= 1
    /\ i + Len(pat) - 1 <= Len(t)
    /\ \A k \in 1..Len(pat) : t[i + k - 1] = pat[k]

RECURSIVE ReplaceFrom(_, _, _, _)
ReplaceFrom(t, pat, rep, i) ==
    IF i > Len(t) THEN << >>
    ELSE IF OccursAt(t, pat, i)
         THEN rep \o ReplaceFrom(t, pat, rep, i + Len(pat))
         ELSE <<t[i]>> \o ReplaceFrom(t, pat, rep, i + 1)

\* Python str.replace(pat, rep) for a non-empty pat: every non-overlapping
\* occurrence, scanning left to right.
StrReplace(t, pat, rep) == ReplaceFrom(t, pat, rep, 1)

\* Characters Python's str.rstrip() and the regex class \s treat as whitespace.
Whitespace == {" ", "\n", "\t"}

RECURSIVE RStrip(_)
RStrip(t) ==
    IF Len(t) > 0 /\ t[Len(t)] \in Whitespace
    THEN RStrip(SubSeq(t, 1, Len(t) - 1))
    ELSE t

\* Number of occurrences of x in the sequence s.
RECURSIVE Count(_, _)
Count(s, x) ==
    IF s = << >> THEN 0
    ELSE (IF Head(s) = x THEN 1 ELSE 0) + Count(Tail(s), x)

Range(s) == {s[k] : k \in 1..Len(s)}

\* sorted(a) == sorted(b) on lists of strings: equal as multisets.
SortedEqual(a, b) ==
    /\ Len(a) = Len(b)
    /\ \A x \in Range(a) \cup Range(b) : Count(a, x) = Count(b, x)

\* Decimal digits of a natural number, as Python's str(n).
DigitChar(d) == <<"0", "1", "2", "3", "4", "5", "6", "7", "8", "9">>[d + 1]

RECURSIVE Decimal(_)
Decimal(n) ==
    IF n < 10 THEN <<DigitChar(n)>>
    ELSE Decimal(n \div 10) \o <<DigitChar(n % 10)>>

-----------------------------------------------------------------------------
(* _FORMAT_PATTERNS: the three placeholder families, as matchers.          *)
(* MatchEnd(p, t, i) is the 1-based position just after the match of       *)
(* pattern p that starts at position i of t, or 0 when there is none.      *)

ConvChars == {"s", "d", "i", "f", "c", "r"}

\* First position >= i of t holding character c, or 0.
RECURSIVE IndexOf(_, _, _)
IndexOf(t, c, i) ==
    IF i > Len(t) THEN 0
    ELSE IF t[i] = c THEN i
    ELSE IndexOf(t, c, i + 1)

\* %\([^)]+\)[sdifcr]
MatchNamed(t, i) ==
    IF i + 1 <= Len(t) /\ t[i] = "%" /\ t[i + 1] = "("
    THEN LET j == IndexOf(t, ")", i + 2)
         IN  IF j >= i + 3 /\ j + 1 <= Len(t) /\ t[j + 1] \in ConvChars
             THEN j + 2
             ELSE 0
    ELSE 0

\* %[sdifcr%]
MatchPositional(t, i) ==
    IF i + 1 <= Len(t) /\ t[i] = "%" /\ t[i + 1] \in ConvChars \cup {"%"}
    THEN i + 2
    ELSE 0

\* \{[^}]*\}
MatchBrace(t, i) ==
    IF i <= Len(t) /\ t[i] = "{"
    THEN LET j == IndexOf(t, "}", i + 1)
         IN  IF j > 0 THEN j + 1 ELSE 0
    ELSE 0

\* The families in the order of the _FORMAT_PATTERNS list.
Patterns == <<"named", "positional", "brace">>

MatchEnd(p, t, i) ==
    CASE p = "named"      -> MatchNamed(t, i)
      [] p = "positional" -> MatchPositional(t, i)
      [] p = "brace"      -> MatchBrace(t, i)

\* pattern.finditer(text): leftmost non-overlapping matches, each as
\* [start, end, group] with Python's 0-based start and exclusive end.
RECURSIVE FindIterFrom(_, _, _)
FindIterFrom(p, t, i) ==
    IF i > Len(t) THEN << >>
    ELSE LET e == MatchEnd(p, t, i)
         IN  IF e > 0
             THEN <<[start |-> i - 1, end |-> e - 1, group |-> SubSeq(t, i, e - 1)]>>
                  \o FindIterFrom(p, t, e)
             ELSE FindIterFrom(p, t, i + 1)

FindIter(p, t) == FindIterFrom(p, t, 1)

\* pattern.findall(text): the matched texts.
FindAll(p, t) == LET ms == FindIter(p, t) IN [k \in 1..Len(ms) |-> ms[k].group]

-----------------------------------------------------------------------------
(* _protect_placeholders                                                   *)

\* list.sort(key=start, reverse=True): a stable sort, larger start first.
RECURSIVE InsertDesc(_, _)
InsertDesc(sorted, m) ==
    IF sorted = << >> THEN <<m>>
    ELSE IF Head(sorted).start >= m.start
         THEN <<Head(sorted)>> \o InsertDesc(Tail(sorted), m)
         ELSE <<m>> \o sorted

RECURSIVE SortDesc(_)
SortDesc(ms) ==
    IF ms = << >> THEN << >>
    ELSE InsertDesc(SortDesc(SubSeq(ms, 1, Len(ms) - 1)), ms[Len(ms)])

\* The matches of the three families, one family after the other.
AllMatches(t) ==
    FindIter(Patterns[1], t) \o FindIter(Patterns[2], t) \o FindIter(Patterns[3], t)

\* f"<x{counter}/>"
Token(counter) == <<"<", "x">> \o Decimal(counter) \o <<"/", ">">>

Reverse(s) == [k \in 1..Len(s) |-> s[Len(s) + 1 - k]]

\* The placeholders of the text, from left to right.
PlaceholdersInOrder(t) ==
    LET ms == Reverse(SortDesc(AllMatches(t)))
    IN  [i \in 1..Len(ms) |-> ms[i].group]

\* The replacement loop: each match, from the last to the first, is cut out
\* of the current text at the offsets it had in the original text.
RECURSIVE ProtectLoop(_, _, _, _)
ProtectLoop(ms, text, tokens, counter) ==
    IF ms = << >> THEN [text |-> text, tokens |-> tokens]
    ELSE LET m == Head(ms)
             token == Token(counter)
         IN  ProtectLoop(Tail(ms),
                         Slice(text, 0, m.start) \o token \o Slice(text, m.end, Len(text)),
                         Append(tokens, <<token, m.group>>),
                         counter - 1)

\* Lines 38-48, for the sorted matches ms.
ProtectSorted(t, ms) ==
    [text |-> ProtectLoop(ms, t, << >>, Len(ms)).text,
     tokens |-> Reverse(ProtectLoop(ms, t, << >>, Len(ms)).tokens)]

ProtectPlaceholders(t) == ProtectSorted(t, SortDesc(AllMatches(t)))

-----------------------------------------------------------------------------
(* _restore_placeholders                                                   *)

\* token.replace("/>", " />")
SpacedToken(token) == StrReplace(token, <<"/", ">">>, <<" ", "/", ">">>)

RestoreOne(text, token, original) ==
    StrReplace(StrReplace(text, token, original), SpacedToken(token), original)

RECURSIVE RestorePlaceholders(_, _)
RestorePlaceholders(text, tokens) ==
    IF tokens = << >> THEN text
    ELSE RestorePlaceholders(RestoreOne(text, Head(tokens)[1], Head(tokens)[2]),
                             Tail(tokens))

-----------------------------------------------------------------------------
(* _validate_placeholders                                                  *)

\* The validator comparing which placeholders occur, not how often.
ValidateSetwise(original, translated) ==
    \A k \in 1..Len(Patterns) :
        Range(FindAll(Patterns[k], original)) = Range(FindAll(Patterns[k], translated))

ValidatePlaceholders(original, translated) ==
    \A k \in 1..Len(Patterns) :
        SortedEqual(FindAll(Patterns[k], original), FindAll(Patterns[k], translated))

-----------------------------------------------------------------------------
(* _fix_placeholders                                                       *)

\* Length of the run of characters matching [^}\s] that starts at position i.
RECURSIVE RunLen(_, _)
RunLen(t, i) ==
    IF i > Len(t) \/ t[i] = "}" \/ t[i] \in Whitespace THEN 0
    ELSE 1 + RunLen(t, i + 1)

\* re.escape(c) + r'[^}\s]*(?!\})' matched at position i: the position just
\* after the match, or 0. The greedy run gives back one character when a
\* closing brace follows it, and fails when it has none to give back.
CorruptedEnd(c, t, i) ==
    IF i <= Len(t) /\ t[i] = c
    THEN LET k == RunLen(t, i + 1)
             j == i + 1 + k
         IN  IF j <= Len(t) /\ t[j] = "}"
             THEN (IF k >= 1 THEN j - 1 ELSE 0)
             ELSE j
    ELSE 0

\* corrupted.search(translated): the first position with a match, or 0.
RECURSIVE CorruptedSearch(_, _, _)
CorruptedSearch(c, t, i) ==
    IF i > Len(t) THEN 0
    ELSE IF CorruptedEnd(c, t, i) > 0 THEN i
    ELSE CorruptedSearch(c, t, i + 1)

\* Lines 88-92: the corrupted fragment found at position i (0: none) is
\* replaced by the placeholder, or the placeholder is appended.
FixAt(placeholder, translated, i) ==
    IF i > 0
    THEN SubSeq(translated, 1, i - 1) \o placeholder
         \o SubSeq(translated, CorruptedEnd(placeholder[1], translated, i), Len(translated))
    ELSE RStrip(translated) \o <<" ">> \o placeholder

\* The body of the inner loop for one placeholder that is missing.
FixOne(placeholder, translated) ==
    FixAt(placeholder, translated, CorruptedSearch(placeholder[1], translated, 1))

\* The inner loop without its membership test.
RECURSIVE FixLoopAlways(_, _, _)
FixLoopAlways(orig_matches, trans_matches, translated) ==
    IF orig_matches = << >> THEN translated
    ELSE FixLoopAlways(Tail(orig_matches), trans_matches,
                       FixOne(Head(orig_matches), translated))

\* The inner loop: trans_matches was taken before the loop and is not
\* refreshed while translated changes.
RECURSIVE FixLoop(_, _, _)
FixLoop(orig_matches, trans_matches, translated) ==
    IF orig_matches = << >> THEN translated
    ELSE FixLoop(Tail(orig_matches), trans_matches,
                 IF Head(orig_matches) \in Range(trans_matches)
                 THEN translated
                 ELSE FixOne(Head(orig_matches), translated))

RECURSIVE FixFrom(_, _, _)
FixFrom(k, original, translated) ==
    IF k > Len(Patterns) THEN translated
    ELSE FixFrom(k + 1, original,
                 FixLoop(FindAll(Patterns[k], original),
                         FindAll(Patterns[k], translated),
                         translated))

FixPlaceholders(original, translated) == FixFrom(1, original, translated)

-----------------------------------------------------------------------------
(* Catalogs.  An entry is [msgid, msgstr, fuzzy, obsolete]; a catalog file  *)
(* is [exists, entries]; the template is [readable, msgids].               *)

\* core/languages.py
SUPPORTED_LANGUAGES ==
    <<"bg", "cs", "da", "de", "el", "en", "es", "et", "fi", "fr", "he", "hr",
      "hu", "is", "it", "ja", "ko", "nl", "no", "pl", "pt-BR", "pt", "ro",
      "ru", "sk", "sv", "tr", "uk", "zh">>

\* Number of languages of the table the model runs over.
NumLangs == 2

Languages == SubSeq(SUPPORTED_LANGUAGES, 1, NumLangs)

\* Number of translate_language calls made directly in one behaviour.
MaxRuns == 2

\* Number of translate_project calls in one behaviour.
MaxProjectRuns == 1

NewEntry(msgid) ==
    [msgid |-> msgid, msgstr |-> << >>, fuzzy |-> FALSE, obsolete |-> FALSE]

NoFile == [exists |-> FALSE, entries |-> << >>]

\* Position of the entry with this msgid in a catalog, or 0.  When a msgid
\* is there twice the later entry wins, as in the dict polib's merge builds.
RECURSIVE Find(_, _, _)
Find(entries, msgid, k) ==
    IF k = 0 THEN 0
    ELSE IF entries[k].msgid = msgid THEN k
    ELSE Find(entries, msgid, k - 1)

\* POEntry.merge that starts over from the template's entry.
MergeEntryReset(e, msgid) == NewEntry(msgid)

\* POEntry.merge: the entry takes the template's msgid and obsolete state and
\* keeps its msgstr and its fuzzy flag.
MergeEntry(e, msgid) ==
    [msgid |-> msgid, msgstr |-> e.msgstr, fuzzy |-> e.fuzzy, obsolete |-> FALSE]

\* First loop of POFile.merge: each template entry is merged into the entry
\* with its msgid, or into a new entry appended to the catalog.
RECURSIVE MergeLoop(_, _, _)
MergeLoop(entries, self_entries, msgids) ==
    IF msgids = << >> THEN entries
    ELSE LET k == Find(self_entries, Head(msgids), Len(self_entries))
         IN  MergeLoop(IF k = 0
                       THEN Append(entries, MergeEntry(NewEntry(<< >>), Head(msgids)))
                       ELSE [entries EXCEPT ![k] = MergeEntry(entries[k], Head(msgids))],
                       self_entries, Tail(msgids))

\* POFile.merge without its second loop.
MarkNothing(entries, msgids) == entries

\* Second loop of POFile.merge: what the template no longer has is obsolete.
MarkObsolete(entries, msgids) ==
    [k \in 1..Len(entries) |->
        IF entries[k].msgid \in Range(msgids)
        THEN entries[k]
        ELSE [entries[k] EXCEPT !.obsolete = TRUE]]

\* po.merge(pot)
Merge(entries, msgids) == MarkObsolete(MergeLoop(entries, entries, msgids), msgids)

\* The create-or-load branch of translate_language.
LoadOrCreate(file, msgids) ==
    IF file.exists
    THEN Merge(file.entries, msgids)
    ELSE [k \in 1..Len(msgids) |-> NewEntry(msgids[k])]

\* The positions, in order, at which the sequence of booleans holds TRUE.
RECURSIVE TruePositions(_, _)
TruePositions(flags, k) ==
    IF k > Len(flags) THEN << >>
    ELSE (IF flags[k] THEN <<k>> ELSE << >>) \o TruePositions(flags, k + 1)

\* POEntry.translated
IsTranslated(e) == ~e.obsolete /\ ~e.fuzzy /\ e.msgstr # << >>

\* untranslated_entries that takes every entry that is not fuzzy.
UntranslatedOrNot(entries) ==
    TruePositions([k \in 1..Len(entries) |->
                      ~entries[k].obsolete /\ ~entries[k].fuzzy], 1)

\* untranslated_entries that takes the fuzzy entries as well.
UntranslatedWithFuzzy(entries) ==
    TruePositions([k \in 1..Len(entries) |->
                      ~IsTranslated(entries[k]) /\ ~entries[k].obsolete], 1)

\* POFile.untranslated_entries, as positions in the catalog.
UntranslatedEntries(entries) ==
    TruePositions([k \in 1..Len(entries) |->
                      ~IsTranslated(entries[k]) /\ ~entries[k].obsolete
                      /\ ~entries[k].fuzzy], 1)

\* POFile.fuzzy_entries, as positions in the catalog.
FuzzyEntries(entries) ==
    TruePositions([k \in 1..Len(entries) |->
                      entries[k].fuzzy /\ ~entries[k].obsolete], 1)

\* entries_to_translate with the fuzzy entries first.
EntriesFuzzyFirst(entries) == FuzzyEntries(entries) \o UntranslatedEntries(entries)

\* entries_to_translate
EntriesToTranslate(entries) == UntranslatedEntries(entries) \o FuzzyEntries(entries)

\* po.save: the entries that are not obsolete, then the obsolete ones.
SavedFile(entries) ==
    LET order == TruePositions([k \in 1..Len(entries) |-> ~entries[k].obsolete], 1)
                 \o TruePositions([k \in 1..Len(entries) |-> entries[k].obsolete], 1)
    IN  [exists |-> TRUE, entries |-> [k \in 1..Len(order) |-> entries[order[k]]]]

-----------------------------------------------------------------------------
(* One iteration of the entry loop of translate_language.                  *)

\* Lines 212-216: msgstr is set, and the fuzzy flag is removed when the
\* text that was set passes validation.
CommitTranslation(e, translation, flagged) ==
    [e EXCEPT !.msgstr = translation,
              !.fuzzy = IF ValidatePlaceholders(e.msgid, translation)
                        THEN FALSE
                        ELSE flagged]

\* The repaired text committed without the second validation.
CommitRepairedUnchecked(e, fixed) == CommitTranslation(e, fixed, e.fuzzy)

\* Lines 205-210: the repaired text is validated again; when it fails the
\* msgid is taken instead and the entry is flagged fuzzy.
CommitRepaired(e, fixed) ==
    IF ValidatePlaceholders(e.msgid, fixed)
    THEN CommitTranslation(e, fixed, e.fuzzy)
    ELSE CommitTranslation(e, e.msgid, TRUE)

\* Lines 200-203: the restored text is validated, and repaired when it fails.
CommitRestored(e, restored0) ==
    IF ValidatePlaceholders(e.msgid, restored0)
    THEN CommitTranslation(e, restored0, e.fuzzy)
    ELSE CommitRepaired(e, FixPlaceholders(e.msgid, restored0))

\* Lines 196-198
RestoreReply(reply, tokens) ==
    IF tokens # << >> THEN RestorePlaceholders(reply, tokens) ELSE reply

\* Lines 196-217: the provider returned reply for the protected msgid.
CommitReply(e, reply) ==
    CommitRestored(e, RestoreReply(reply, ProtectPlaceholders(e.msgid).tokens))

\* The except branch overwriting a msgstr that was there.
CommitFailureOverwrite(e) == [e EXCEPT !.fuzzy = TRUE, !.msgstr = e.msgid]

\* The except branch without the fuzzy flag.
CommitFailureUnflagged(e) ==
    [e EXCEPT !.msgstr = IF e.msgstr = << >> THEN e.msgid ELSE e.msgstr]

\* Lines 218-223: the provider call, or anything after it, raised.
CommitFailure(e) ==
    [e EXCEPT !.fuzzy = TRUE,
              !.msgstr = IF e.msgstr = << >> THEN e.msgid ELSE e.msgstr]

-----------------------------------------------------------------------------
(* Inputs: the msgids of the project, the templates the extraction step    *)
(* can produce, the catalog files found on disk, the provider's replies.   *)

MsgA == <<"a", "%", "s">>

MsgB == <<"h", "i">>

MsgC == <<"{", "}", "%", "d">>

\* A brace placeholder around a printf one, as in a JSON or dict literal.
MsgD == <<"{", "%", "s", "}">>

\* A template may hold an entry without msgid besides its header.
Templates == { <<MsgA>>, <<MsgA, MsgB>>, <<MsgC, << >>, MsgA>>, <<MsgA, MsgD>> }

\* A catalog a translator worked on by hand: a fuzzy entry that holds a
\* draft, a finished translation, a fuzzy entry whose draft lacks a
\* placeholder, and an entry flagged fuzzy before anything was written.
EditedFile ==
    [exists |-> TRUE,
     entries |-> << [msgid |-> MsgA, msgstr |-> <<"%", "s", "b">>, fuzzy |-> TRUE,
                     obsolete |-> FALSE],
                    [msgid |-> MsgB, msgstr |-> <<"o", "i">>, fuzzy |-> FALSE,
                     obsolete |-> FALSE],
                    [msgid |-> MsgC, msgstr |-> <<"{", "}">>, fuzzy |-> TRUE,
                     obsolete |-> FALSE],
                    [msgid |-> MsgD, msgstr |-> << >>, fuzzy |-> TRUE,
                     obsolete |-> FALSE] >>]

PriorFiles == {NoFile, EditedFile}

\* The tokens of a protected text taken out of it.
RECURSIVE DropTokens(_, _)
DropTokens(t, tokens) ==
    IF tokens = << >> THEN t
    ELSE DropTokens(StrReplace(t, Head(tokens)[1], << >>), Tail(tokens))

\* What api.translate may return for a protected text: the text itself, a
\* translation that keeps the tokens, one that lost them, one with a
\* placeholder of its own, and the empty text.
Replies(p) ==
    { p.text,
      <<"T">> \o p.text,
      DropTokens(p.text, p.tokens),
      p.text \o <<"%", "d">>,
      << >> }

-----------------------------------------------------------------------------
(* State of the codec when it is run on its own.                           *)

VARIABLES
    text,       \* the text handed to _protect_placeholders
    prot,       \* its result: [text, tokens]
    answer,     \* what api.translate returned for the protected text
    restored,   \* the result of _restore_placeholders on the reply
    cpc         \* "start", "protected", "translated" or "restored"

codecVars == <<text, prot, answer, restored, cpc>>

NoProt == [text |-> << >>, tokens |-> << >>]

-----------------------------------------------------------------------------
(* State of the validator and the repairer when they are run on their own. *)

VARIABLES
    original,   \* the original handed to _validate_placeholders and _fix_placeholders
    translated, \* the translated text handed to them
    valid,      \* _validate_placeholders(original, translated)
    fixed,      \* _fix_placeholders(original, translated)
    refixed,    \* _fix_placeholders(original, fixed)
    rpc         \* "start", "validated", "fixed" or "refixed"

repairVars == <<original, translated, valid, fixed, refixed, rpc>>

-----------------------------------------------------------------------------
(* State of the main window (ui/main_window.py): the GTK main thread, the  *)
(* worker threads it starts, and the GLib idle queue between them.         *)

VARIABLES
    selected_project,   \* whether self.selected_project is set
    is_translating,     \* self.is_translating
    threads,            \* the worker threads started so far: [pc, lang, calls]
    idle_queue,         \* the callbacks queued with GLib.idle_add, oldest first
    clicks              \* clicks on Start Translation so far

uiVars == <<selected_project, is_translating, threads, idle_queue, clicks>>

-----------------------------------------------------------------------------
(* State of the engine.                                                    *)

VARIABLES
    pot,                \* the template file: [readable, msgids]
    disk,               \* language code -> catalog file
    runs,               \* calls made so far
    pstate,             \* translate_project: "idle", "loop" or "returned"
    current,            \* translate_project: current
    results,            \* translate_project: results
    callbacks,          \* the progress_callback invocations of this call
    attempted,          \* the languages translate_language was called for
    lstate,             \* translate_language: "idle", "entries", "returned", "raised"
    lang,               \* translate_language: lang
    po,                 \* translate_language: the entries of po
    todo,               \* entries_to_translate, as positions in po
    idx,                \* position in todo of the next entry of the loop
    translated_count,   \* translate_language: translated_count
    merged,             \* po as it was right after the merge
    log,                \* what each iteration of the entry loop of this call did
    prev_failed         \* language -> msgids whose attempt failed in the call saved last

engineVars ==
    <<pot, disk, runs, pstate, current, results, callbacks, attempted, lstate,
      lang, po, todo, idx, translated_count, merged, log, prev_failed>>

\* What the engine does not touch.
sideVars == <<codecVars, repairVars, uiVars>>

vars == <<engineVars, sideVars>>

LangSet == Range(Languages)

CodecIdle ==
    /\ text = << >>
    /\ prot = NoProt
    /\ answer = << >>
    /\ restored = << >>
    /\ cpc = "off"

RepairIdle ==
    /\ original = << >>
    /\ translated = << >>
    /\ valid = FALSE
    /\ fixed = << >>
    /\ refixed = << >>
    /\ rpc = "off"

\* MainWindow.__init__
WindowInit ==
    /\ selected_project = FALSE
    /\ is_translating = FALSE
    /\ threads = << >>
    /\ idle_queue = << >>
    /\ clicks = 0

SideIdle == CodecIdle /\ RepairIdle /\ WindowInit

EngineIdle ==
    /\ runs = 0
    /\ pstate = "idle"
    /\ current = 0
    /\ results = << >>
    /\ callbacks = << >>
    /\ attempted = << >>
    /\ lstate = "idle"
    /\ po = << >>
    /\ todo = << >>
    /\ idx = 1
    /\ translated_count = 0
    /\ merged = << >>
    /\ log = << >>
    /\ prev_failed = [l \in LangSet |-> {}]

\* translate_language is called on its own, again and again, for one
\* language; the extraction step may rewrite the template between calls.
Init ==
    /\ EngineIdle
    /\ SideIdle
    /\ lang \in LangSet
    /\ pot \in {[readable |-> TRUE, msgids |-> t] : t \in Templates}
    /\ \E f \in PriorFiles : disk = [l \in LangSet |-> IF l = lang THEN f ELSE NoFile]

-----------------------------------------------------------------------------
(* translate_language                                                      *)

\* Lines 156-181 for language l: the template is read, the catalog is
\* loaded and merged or created, the entries to translate are listed.
BeginLanguage(l) ==
    /\ lang' = l
    /\ attempted' = Append(attempted, l)
    /\ idx' = 1
    /\ translated_count' = 0
    /\ log' = << >>
    /\ IF pot.readable
       THEN /\ po' = LoadOrCreate(disk[l], pot.msgids)
            /\ todo' = EntriesToTranslate(po')
            /\ merged' = po'
            /\ lstate' = "entries"
       ELSE /\ po' = << >>
            /\ todo' = << >>
            /\ merged' = << >>
            /\ lstate' = "raised"

\* The msgids handed to api.translate in this call so far, in order.
RECURSIVE SentOf(_)
SentOf(events) ==
    IF events = << >> THEN << >>
    ELSE (IF Head(events).kind = "skipped" THEN << >> ELSE <<Head(events).before.msgid>>)
         \o SentOf(Tail(events))

Sent == SentOf(log)

\* The iterations of this call of the given kinds.
OfKind(kinds) == {k \in 1..Len(log) : log[k].kind \in kinds}

\* The msgids whose attempt failed in this call: the provider raised, or
\* the reply could not be validated even after repair.
Failed == {log[k].before.msgid : k \in OfKind({"failed", "fallback"})}

\* The entry of the loop's next iteration.
Entry == po[todo[idx]]

\* What no iteration of the entry loop touches.
EntryFrame ==
    UNCHANGED <<pot, disk, runs, pstate, current, results, callbacks, attempted,
                lstate, lang, todo, merged, prev_failed, sideVars>>

\* Line 183-184: an entry without msgid is passed over.
SkipEntry ==
    /\ lstate = "entries"
    /\ idx <= Len(todo)
    /\ Entry.msgid = << >>
    /\ idx' = idx + 1
    /\ log' = Append(log, [kind |-> "skipped", before |-> Entry, after |-> Entry,
                            reply |-> << >>])
    /\ UNCHANGED <<po, translated_count>>
    /\ EntryFrame

\* How the restored reply ends for the entry: committed as it is, committed
\* after repair, or replaced by the msgid.
RestoredKind(msgid, restored0) ==
    IF ValidatePlaceholders(msgid, restored0) THEN "translated"
    ELSE IF ValidatePlaceholders(msgid, FixPlaceholders(msgid, restored0))
         THEN "repaired"
         ELSE "fallback"

ReplyKind(e, reply) ==
    RestoredKind(e.msgid, RestoreReply(reply, ProtectPlaceholders(e.msgid).tokens))

\* An iteration of the entry loop left the entry as after; reply holds what
\* api.translate returned, if it returned.
Record(kind, before, after, reply) ==
    /\ po' = [po EXCEPT ![todo[idx]] = after]
    /\ log' = Append(log, [kind |-> kind, before |-> before, after |-> after,
                            reply |-> reply])

\* Lines 186-217: api.translate returned.
TranslateEntry ==
    /\ lstate = "entries"
    /\ idx <= Len(todo)
    /\ Entry.msgid # << >>
    /\ \E reply \in Replies(ProtectPlaceholders(Entry.msgid)) :
          Record(ReplyKind(Entry, reply), Entry, CommitReply(Entry, reply), <<reply>>)
    /\ translated_count' = translated_count + 1
    /\ idx' = idx + 1
    /\ EntryFrame

\* Lines 186-194 and 218-223: api.translate raised.
FailEntry ==
    /\ lstate = "entries"
    /\ idx <= Len(todo)
    /\ Entry.msgid # << >>
    /\ Record("failed", Entry, CommitFailure(Entry), << >>)
    /\ idx' = idx + 1
    /\ UNCHANGED translated_count
    /\ EntryFrame

\* po.save and the return reached from inside the entry loop.
SaveCatalogEarly ==
    /\ lstate = "entries"
    /\ disk' = [disk EXCEPT ![lang] = SavedFile(po)]
    /\ prev_failed' = [prev_failed EXCEPT ![lang] = Failed]
    /\ lstate' = "returned"
    /\ UNCHANGED <<pot, runs, pstate, current, results, callbacks, attempted, lang,
                   po, todo, idx, translated_count, merged, log, sideVars>>

\* Lines 225-227: po.save writes the file and the count is returned.
SaveCatalog ==
    /\ lstate = "entries"
    /\ idx > Len(todo)
    /\ disk' = [disk EXCEPT ![lang] = SavedFile(po)]
    /\ prev_failed' = [prev_failed EXCEPT ![lang] = Failed]
    /\ lstate' = "returned"
    /\ UNCHANGED <<pot, runs, pstate, current, results, callbacks, attempted, lang,
                   po, todo, idx, translated_count, merged, log, sideVars>>

\* Line 226: po.save raises (the file cannot be opened for writing).
SaveFails ==
    /\ lstate = "entries"
    /\ idx > Len(todo)
    /\ lstate' = "raised"
    /\ UNCHANGED <<pot, disk, runs, pstate, current, results, callbacks, attempted,
                   lang, po, todo, idx, translated_count, merged, log, prev_failed,
                   sideVars>>

\* The caller invokes translate_language(pot_file, lang, project_path).
CallLanguage ==
    /\ pstate = "idle"
    /\ lstate \in {"idle", "returned", "raised"}
    /\ runs < MaxRuns
    /\ runs' = runs + 1
    /\ BeginLanguage(lang)
    /\ UNCHANGED <<pot, disk, pstate, current, results, callbacks, prev_failed,
                   sideVars>>

\* The extraction step rewrites the template between two calls; the call
\* before it is over.
Extract ==
    /\ pstate = "idle"
    /\ lstate \in {"returned", "raised"}
    /\ runs < MaxRuns
    /\ \E t \in Templates \ {pot.msgids} : pot' = [readable |-> TRUE, msgids |-> t]
    /\ lstate' = "idle"
    /\ UNCHANGED <<disk, runs, pstate, current, results, callbacks, attempted,
                   lang, po, todo, idx, translated_count, merged, log, prev_failed,
                   sideVars>>

Next ==
    \/ CallLanguage
    \/ Extract
    \/ SkipEntry
    \/ TranslateEntry
    \/ FailEntry
    \/ SaveCatalog
    \/ SaveFails

Spec == Init /\ [][Next]_vars

-----------------------------------------------------------------------------
(* translate_project                                                       *)

ProjectTemplates == { <<MsgA, << >>>> }

\* translate_project is called with a template that may be unreadable, over
\* catalogs that may exist already.
InitProject ==
    /\ EngineIdle
    /\ SideIdle
    /\ lang = Languages[1]
    /\ pot \in {[readable |-> TRUE, msgids |-> t] : t \in ProjectTemplates}
               \cup {[readable |-> FALSE, msgids |-> << >>]}
    /\ disk \in [LangSet -> PriorFiles]

\* Lines 120-122
ProjectCall ==
    /\ pstate \in {"idle", "returned"}
    /\ runs < MaxProjectRuns
    /\ runs' = runs + 1
    /\ pstate' = "loop"
    /\ results' = << >>
    /\ current' = 0
    /\ callbacks' = << >>
    /\ attempted' = << >>
    /\ lstate' = "idle"
    /\ UNCHANGED <<pot, disk, lang, po, todo, idx, translated_count, merged, log,
                   prev_failed, sideVars>>

\* Lines 124-127: the loop takes the next language and calls
\* translate_language for it.
ProjectIterate ==
    /\ pstate = "loop"
    /\ lstate = "idle"
    /\ current < Len(Languages)
    /\ current' = current + 1
    /\ BeginLanguage(Languages[current + 1])
    /\ UNCHANGED <<pot, disk, runs, pstate, results, callbacks, prev_failed,
                   sideVars>>

\* The loop is back at its head with this language done.
LanguageDone(success, message) ==
    /\ results' = (lang :> success) @@ results
    /\ callbacks' = Append(callbacks,
                           [lang |-> lang, status |-> message, current |-> current,
                            total |-> Len(Languages)])
    /\ lstate' = "idle"
    /\ UNCHANGED <<pot, disk, runs, pstate, current, attempted, lang, po, todo, idx,
                   translated_count, merged, log, prev_failed, sideVars>>

\* A language counted as a success only when no provider call of it raised.
ProjectSuccessStrict ==
    /\ pstate = "loop"
    /\ lstate = "returned"
    /\ LanguageDone(OfKind({"failed"}) = {},
                    [error |-> FALSE, strings |-> translated_count])

\* Lines 127-136: translate_language returned its count.
ProjectSuccess ==
    /\ pstate = "loop"
    /\ lstate = "returned"
    /\ LanguageDone(TRUE, [error |-> FALSE, strings |-> translated_count])

\* translate_language's error leaving translate_project.
ProjectErrorAborts ==
    /\ pstate = "loop"
    /\ lstate = "raised"
    /\ pstate' = "returned"
    /\ lstate' = "idle"
    /\ UNCHANGED <<pot, disk, runs, current, results, callbacks, attempted, lang, po,
                   todo, idx, translated_count, merged, log, prev_failed, sideVars>>

\* The except branch without its progress_callback invocation.
ProjectErrorSilent ==
    /\ pstate = "loop"
    /\ lstate = "raised"
    /\ results' = (lang :> FALSE) @@ results
    /\ lstate' = "idle"
    /\ UNCHANGED <<pot, disk, runs, pstate, current, callbacks, attempted, lang, po,
                   todo, idx, translated_count, merged, log, prev_failed, sideVars>>

\* Lines 137-140: translate_language raised.
ProjectError ==
    /\ pstate = "loop"
    /\ lstate = "raised"
    /\ LanguageDone(FALSE, [error |-> TRUE, strings |-> 0])

\* Line 142
ProjectReturn ==
    /\ pstate = "loop"
    /\ lstate = "idle"
    /\ current = Len(Languages)
    /\ pstate' = "returned"
    /\ UNCHANGED <<pot, disk, runs, current, results, callbacks, attempted, lstate,
                   lang, po, todo, idx, translated_count, merged, log, prev_failed,
                   sideVars>>

NextProject ==
    \/ ProjectCall
    \/ ProjectIterate
    \/ SkipEntry
    \/ TranslateEntry
    \/ FailEntry
    \/ SaveCatalog
    \/ SaveFails
    \/ ProjectSuccess
    \/ ProjectError
    \/ ProjectReturn

SpecProject == InitProject /\ [][NextProject]_vars

-----------------------------------------------------------------------------
(* Properties of translate_language.                                       *)

\* Position of the entry with this msgid, or 0.
Pos(entries, msgid) == Find(entries, msgid, Len(entries))

ReplyKinds == {"translated", "repaired", "fallback"}

\* The catalog file of the language of the call.
File == disk[lang].entries

\* C2: every msgstr the entry loop writes passes validation against its
\* msgid, whatever the provider returned (a msgstr that was there before and
\* is kept when the provider raises is not written by the call), and it is
\* the msgstr the saved catalog holds.
C2_CommittedValid ==
    \A k \in 1..Len(log) :
        (log[k].kind \in ReplyKinds
            \/ (log[k].kind = "failed" /\ log[k].before.msgstr = << >>))
        => /\ ValidatePlaceholders(log[k].after.msgid, log[k].after.msgstr)
           /\ lstate = "returned"
              => File[Pos(File, log[k].after.msgid)].msgstr = log[k].after.msgstr

C2_Witness ==
    /\ lstate = "returned"
    /\ OfKind({"repaired"}) # {}
    /\ OfKind({"fallback"}) # {}

\* C3: an entry whose restored translation fails validation, also after the
\* repair, ends with msgstr = msgid and flagged fuzzy.
C3_FallbackFuzzy ==
    \A k \in OfKind({"fallback"}) :
        log[k].after.msgstr = log[k].after.msgid /\ log[k].after.fuzzy

\* C4: when the provider raises for an entry the entry is flagged fuzzy, its
\* msgstr becomes the msgid only if it was empty, the entry is not counted,
\* and the loop goes on: the call ends only after every entry to translate
\* had its iteration, each one starting from the entry as merged.
C4_ProviderFailure ==
    /\ \A k \in OfKind({"failed"}) :
          /\ log[k].after.fuzzy
          /\ log[k].after.msgstr = IF log[k].before.msgstr = << >>
                                   THEN log[k].before.msgid
                                   ELSE log[k].before.msgstr
    /\ lstate \in {"entries", "returned"}
       => translated_count = Cardinality(OfKind(ReplyKinds))
    /\ lstate \in {"returned", "raised"}
       => /\ Len(log) = Len(todo)
          /\ \A k \in 1..Len(log) : log[k].before = merged[todo[k]]

C4_Witness ==
    /\ lstate = "returned"
    /\ \E k \in OfKind({"failed"}) :
          /\ log[k].before.msgstr # << >>
          /\ log[k].before.msgstr # log[k].before.msgid
          /\ k < Len(log)
          /\ log[k + 1].kind = "translated"

\* No provider call of this call returned.
AllRaised == OfKind(ReplyKinds) = {}

\* Whether the merged entry is one the entry loop sends to the provider.
Needed(m) == ~m.obsolete /\ m.msgid # << >> /\ (m.msgstr = << >> \/ m.fuzzy)

\* C5, as stated: when the provider raises on every call, every entry of the
\* saved catalog is fuzzy with msgstr = msgid.
C5_AllFuzzy ==
    (lstate = "returned" /\ AllRaised)
    => \A k \in 1..Len(File) : File[k].fuzzy /\ File[k].msgstr = File[k].msgid

\* C5, amended: when the provider raises on every call, every entry that
\* needed translation is saved fuzzy, with its msgid as msgstr when its
\* msgstr was empty and with the msgstr it had otherwise; every other entry
\* is saved with the msgstr and the flag it had.
C5_NeededFuzzy ==
    (lstate = "returned" /\ AllRaised)
    => \A k \in 1..Len(merged) :
          LET m == merged[k]
              d == File[Pos(File, m.msgid)]
          IN  IF Needed(m)
              THEN d.fuzzy /\ d.msgstr = (IF m.msgstr = << >> THEN m.msgid ELSE m.msgstr)
              ELSE d.fuzzy = m.fuzzy /\ d.msgstr = m.msgstr

C5_Witness ==
    /\ lstate = "returned"
    /\ AllRaised
    /\ \E k \in OfKind({"failed"}) : log[k].before.msgstr = << >>
    /\ \E k \in 1..Len(File) :
          ~File[k].fuzzy /\ ~File[k].obsolete /\ File[k].msgstr # << >>

\* C6: the count translate_language returns is the number of entries
\* committed after their translation passed validation, as returned or after
\* repair.
C6_CountsValidated ==
    lstate = "returned" => translated_count = Cardinality(OfKind({"translated", "repaired"}))

\* C7: merging the template into a catalog that exists keeps msgstr and
\* fuzzy of every entry whose msgid the template has, and adds the
\* template's other msgids with an empty msgstr; an entry that was translated
\* and not fuzzy has the same msgstr in the catalog the call saves.
C7_MergeKeeps ==
    /\ (lstate = "entries" /\ disk[lang].exists)
       => \A i \in 1..Len(pot.msgids) :
             LET d == Pos(File, pot.msgids[i])
                 n == Pos(merged, pot.msgids[i])
             IN  /\ n > 0
                 /\ IF d > 0
                    THEN /\ merged[n].msgstr = File[d].msgstr
                         /\ merged[n].fuzzy = File[d].fuzzy
                    ELSE merged[n].msgstr = << >>
    /\ lstate = "returned"
       => \A k \in 1..Len(merged) :
             (merged[k].msgstr # << >> /\ ~merged[k].fuzzy)
             => /\ Pos(File, merged[k].msgid) > 0
                /\ File[Pos(File, merged[k].msgid)].msgstr = merged[k].msgstr

C7_Witness ==
    /\ lstate = "entries"
    /\ idx > Len(todo)
    /\ disk[lang].exists
    /\ \E i \in 1..Len(pot.msgids) :
          pot.msgids[i] # << >> /\ Pos(File, pot.msgids[i]) = 0
    /\ \E k \in 1..Len(File) :
          /\ File[k].msgid \in Range(pot.msgids)
          /\ File[k].msgstr # << >>
          /\ ~File[k].fuzzy

\* C8: in every call, each msgid handed to the provider is the msgid of an
\* entry that was untranslated or fuzzy right after that call's merge.
C8_OnlyNeededSent ==
    \A k \in 1..Len(log) :
        log[k].kind # "skipped"
        => LET n == Pos(merged, log[k].before.msgid)
           IN  n > 0 /\ (merged[n].msgstr = << >> \/ merged[n].fuzzy)

C8_Witness ==
    /\ lstate = "returned"
    /\ runs = 2
    /\ Len(Sent) >= 1
    /\ \E k \in 1..Len(merged) :
          /\ IsTranslated(merged[k])
          /\ merged[k].msgid \notin Range(Sent)

\* C9: every entry whose attempt failed in the call saved last, and that the
\* template still has, is handed to the provider by the next call.
C9_FailedResent ==
    (lstate = "entries" /\ idx > Len(todo))
    => \A m \in prev_failed[lang] :
          m \in Range(pot.msgids) => m \in Range(Sent)

\* C17: when the provider returns the protected text unchanged, the
\* restored text passes validation as it is and the entry is committed with
\* msgstr = msgid, not fuzzy.
C17_Identity ==
    \A k \in 1..Len(log) :
        log[k].reply = <<ProtectPlaceholders(log[k].before.msgid).text>>
        => /\ log[k].kind = "translated"
           /\ log[k].after.msgstr = log[k].after.msgid
           /\ ~log[k].after.fuzzy

\* The entry loop of this call has ended.
LoopDone == lstate \in {"entries", "returned"} /\ idx > Len(todo)

\* The catalog positions of the entries the loop visited, in visiting order.
Visited == [k \in 1..Len(log) |-> Pos(merged, log[k].before.msgid)]

\* Position k of the merged catalog holds an entry that is untranslated or
\* fuzzy, and not obsolete.
Selected(k) ==
    ~merged[k].obsolete /\ (merged[k].msgstr = << >> \/ merged[k].fuzzy)

\* The loop visited the selected entries of the merged catalog, each once
\* and as merged, and sent those with a msgid to the provider.
VisitsSelected ==
    /\ Range(Visited) = {k \in 1..Len(merged) : Selected(k)}
    /\ \A i \in 1..Len(log) :
          /\ log[i].before = merged[Visited[i]]
          /\ (log[i].kind = "skipped") = (log[i].before.msgid = << >>)
          /\ \A j \in 1..Len(log) : Visited[i] = Visited[j] => i = j

\* C20, as stated: the loop visits the untranslated or fuzzy entries of the
\* merged catalog in catalog order, passing over those without msgid.
C20_CatalogOrder ==
    LoopDone
    => /\ VisitsSelected
       /\ \A i, j \in 1..Len(log) : i < j => Visited[i] < Visited[j]

\* C20, amended: the loop visits the untranslated or fuzzy entries of the
\* merged catalog, first those that are not fuzzy in catalog order, then the
\* fuzzy ones in catalog order, passing over those without msgid.
C20_UntranslatedThenFuzzy ==
    LoopDone
    => /\ VisitsSelected
       /\ \A i, j \in 1..Len(log) :
             i < j
             => \/ ~log[i].before.fuzzy /\ log[j].before.fuzzy
                \/ /\ log[i].before.fuzzy = log[j].before.fuzzy
                   /\ Visited[i] < Visited[j]

C20_Witness ==
    /\ LoopDone
    /\ OfKind({"skipped"}) # {}
    /\ \E i, j \in 1..Len(log) :
          /\ i < j
          /\ Visited[i] > Visited[j]
          /\ log[j].kind # "skipped"
    /\ \E i, j \in 1..Len(log) :
          i < j /\ log[i].before.fuzzy /\ log[j].before.fuzzy

\* The msgids of the entries.
MsgidsOf(entries) == {entries[k].msgid : k \in 1..Len(entries)}

\* C21, as stated: the catalog the call saves holds the msgids of the
\* template and no other.
C21_Dropped ==
    lstate = "returned" => MsgidsOf(File) = Range(pot.msgids)

\* C21, amended: an entry of the old catalog whose msgid the template does
\* not have is made obsolete by the merge and keeps its msgstr and flag; it
\* is never sent to the provider and is saved, as obsolete and unchanged; the
\* entries saved that are not obsolete are those of the template.
C21_Obsoleted ==
    /\ (lstate = "entries" /\ disk[lang].exists)
       => \A k \in 1..Len(File) :
             File[k].msgid \notin Range(pot.msgids)
             => /\ Pos(merged, File[k].msgid) > 0
                /\ merged[Pos(merged, File[k].msgid)]
                   = [File[k] EXCEPT !.obsolete = TRUE]
    /\ \A k \in 1..Len(merged) :
          (lstate \in {"entries", "returned"} /\ merged[k].msgid \notin Range(pot.msgids))
          => /\ merged[k].obsolete
             /\ merged[k].msgid \notin Range(Sent)
             /\ lstate = "returned"
                => /\ Pos(File, merged[k].msgid) > 0
                   /\ File[Pos(File, merged[k].msgid)] = merged[k]
    /\ lstate = "returned"
       => {File[k].msgid : k \in {j \in 1..Len(File) : ~File[j].obsolete}}
          = Range(pot.msgids)

\* C22: a call writes the catalog file once, in the step that ends it, when
\* every entry to translate had its iteration; the file then holds the
\* catalog as the loop left it, and no iteration of the loop comes after the
\* write.
C22_PersistedOnce ==
    /\ [](lstate = "returned" => File = SavedFile(po).entries /\ Len(log) = Len(todo))
    /\ [][/\ disk' # disk
             => /\ lstate = "entries"
                /\ lstate' = "returned"
                /\ idx > Len(todo)
                /\ disk' = [disk EXCEPT ![lang] = SavedFile(po)]
          /\ (lstate = "entries" /\ lstate' = "returned")
             => disk'[lang] = SavedFile(po)
          /\ (log' # log /\ log' # << >>)
             => lstate = "entries" /\ lstate' = "entries"]_vars

C22_Witness ==
    /\ lstate = "returned"
    /\ AllRaised
    /\ Len(Sent) >= 2
    /\ File = SavedFile(po).entries
    /\ runs = MaxRuns

C21_Witness ==
    /\ lstate = "returned"
    /\ Sent # << >>
    /\ \E k \in 1..Len(File) :
          /\ File[k].obsolete
          /\ File[k].fuzzy
          /\ File[k].msgid \notin Range(pot.msgids)

\* The entry loop with the first validation result kept: a restored text
\* that is valid is committed and the flag cleared; otherwise the repaired
\* text is validated once, and committed with the flag cleared when valid;
\* otherwise the msgid is committed and the entry flagged fuzzy.
CachedCommit(e, restored0) ==
    IF ValidatePlaceholders(e.msgid, restored0)
    THEN [e EXCEPT !.msgstr = restored0, !.fuzzy = FALSE]
    ELSE IF ValidatePlaceholders(e.msgid, FixPlaceholders(e.msgid, restored0))
         THEN [e EXCEPT !.msgstr = FixPlaceholders(e.msgid, restored0),
                        !.fuzzy = FALSE]
         ELSE [e EXCEPT !.msgstr = e.msgid, !.fuzzy = TRUE]

\* The outcomes that loop counts as translated.
CachedCounted == OfKind({"translated", "repaired"})

\* C25: for every reply of the provider the entry ends with the msgstr and
\* the fuzzy flag that the loop with the cached validation result gives it,
\* and the count of the call is the count of that loop.
C25_CachedValidation ==
    /\ \A k \in OfKind(ReplyKinds) :
          log[k].after
          = CachedCommit(log[k].before,
                         RestoreReply(log[k].reply[1],
                                      ProtectPlaceholders(log[k].before.msgid).tokens))
    /\ lstate \in {"entries", "returned"}
       => translated_count = Cardinality(CachedCounted)

\* C29: within a call no entry is in both the untranslated list and the
\* fuzzy list, entries_to_translate names no entry twice, the k-th
\* iteration handles the k-th entry of it, and so no entry is sent to the
\* provider more than once; an entry that is fuzzy with an empty msgstr is in
\* the fuzzy list only.
C29_SentOnce ==
    lstate \in {"entries", "returned"}
    => /\ Range(UntranslatedEntries(merged)) \cap Range(FuzzyEntries(merged)) = {}
       /\ \A i, j \in 1..Len(todo) : todo[i] = todo[j] => i = j
       /\ \A k \in 1..Len(log) : log[k].before = merged[todo[k]]
       /\ \A i, j \in 1..Len(Sent) : Sent[i] = Sent[j] => i = j
       /\ \A k \in 1..Len(merged) :
             (merged[k].fuzzy /\ ~merged[k].obsolete /\ merged[k].msgstr = << >>)
             => k \notin Range(UntranslatedEntries(merged))

C29_Witness ==
    /\ lstate = "returned"
    /\ Len(Sent) >= 2
    /\ \E k \in 1..Len(log) :
          /\ log[k].kind # "skipped"
          /\ log[k].before.fuzzy
          /\ log[k].before.msgstr = << >>

\* C30: every entry the call counts has, in the catalog the call leaves, a
\* msgstr that is not empty and no fuzzy flag.
C30_CountedTranslated ==
    \A k \in OfKind(ReplyKinds) :
        log[k].after.msgstr # << >> /\ ~log[k].after.fuzzy

-----------------------------------------------------------------------------
(* Properties of translate_project.                                        *)

\* C10: translate_language is called for every language, in order, whatever
\* the earlier languages' calls raised, and the mapping returned has a
\* boolean for every language.
C10_FanOut ==
    /\ pstate = "loop" => attempted = SubSeq(Languages, 1, current)
    /\ pstate = "returned"
       => /\ attempted = Languages
          /\ DOMAIN results = LangSet
          /\ \A l \in LangSet : results[l] \in BOOLEAN

C10_Witness ==
    /\ pstate = "returned"
    /\ DOMAIN results = LangSet
    /\ ~results[Languages[1]]
    /\ results[Languages[2]]
    /\ disk[Languages[2]].exists

\* C11: progress_callback is invoked once for each language, after the
\* language's translate_language call ended and whether it returned or
\* raised, in the order of SUPPORTED_LANGUAGES, with current counting 1, 2,
\* ... and total the number of languages.
C11_CallbackOrder ==
    /\ \A k \in 1..Len(callbacks) :
          /\ callbacks[k].lang = Languages[k]
          /\ callbacks[k].current = k
          /\ callbacks[k].total = Len(Languages)
    /\ pstate = "loop"
       => Len(callbacks) = IF lstate = "idle" THEN current ELSE current - 1
    /\ pstate = "returned" => Len(callbacks) = Len(Languages)

C11_Witness ==
    /\ pstate = "returned"
    /\ Len(callbacks) = Len(Languages)
    /\ callbacks[1].status.error
    /\ ~callbacks[Len(callbacks)].status.error

\* C12: when a language's translate_language call ends, the mapping gets TRUE
\* for it if the call returned, also when provider calls of it raised (the
\* count in the status message is then the number of replies only), and
\* FALSE if the call raised; the booleans of the other languages stay.
C12_ResultBooleans ==
    [][(pstate = "loop" /\ lstate \in {"returned", "raised"} /\ lstate' = "idle")
       => /\ lang \in DOMAIN results'
          /\ results'[lang] = (lstate = "returned")
          /\ \A l \in DOMAIN results \ {lang} :
                l \in DOMAIN results' /\ results'[l] = results[l]
          /\ lstate = "returned"
             => callbacks'[Len(callbacks')].status
                = [error |-> FALSE, strings |-> Cardinality(OfKind(ReplyKinds))]]_vars

C12_Witness ==
    /\ pstate = "returned"
    /\ pot.readable
    /\ ~results[Languages[1]]
    /\ results[Languages[Len(Languages)]]
    /\ OfKind({"failed"}) # {}
    /\ translated_count < Len(Sent)

\* C18: when the template cannot be read, translate_project attempts no
\* language and invokes no callback.
C18_ConfigurationFatal ==
    ~pot.readable => attempted = << >> /\ callbacks = << >>

-----------------------------------------------------------------------------
(* The codec on its own: a text is protected, then restored.               *)

\* Longest text tried, in atoms.
MaxAtoms == 3

\* The pieces texts are built from: placeholders of the three families,
\* plain characters, the delimiters on their own, and text that reads like
\* a token.
Atoms ==
    { <<"%", "s">>, <<"%", "d">>, <<"%", "%">>, <<"%", "(", "n", ")", "s">>,
      <<"{", "}">>, <<"{", "0", "}">>,
      <<"a">>, <<" ">>, <<"%">>, <<"{">>, <<"}">>,
      <<"<", "x", "1", "/", ">">>, <<"<", "x", "2", " ", "/", ">">> }

RECURSIVE Flatten(_)
Flatten(ss) == IF ss = << >> THEN << >> ELSE Head(ss) \o Flatten(Tail(ss))

Texts == UNION { {Flatten(ss) : ss \in [1..n -> Atoms]} : n \in 0..MaxAtoms }

\* "<x1/>" written "< x1/>"
OpenSpacedToken(token) == StrReplace(token, <<"<">>, <<"<", " ">>)

\* Every token of the protected text written with a space, before its slash
\* or after its opening marker.
RECURSIVE SpaceTokens(_, _, _)
SpaceTokens(t, tokens, before_slash) ==
    IF tokens = << >> THEN t
    ELSE SpaceTokens(StrReplace(t, Head(tokens)[1],
                                IF before_slash
                                THEN SpacedToken(Head(tokens)[1])
                                ELSE OpenSpacedToken(Head(tokens)[1])),
                     Tail(tokens), before_slash)

\* The first and the last token of the protected text exchanged.
SwapTokens(p) ==
    LET first == p.tokens[1][1]
        last == p.tokens[Len(p.tokens)][1]
    IN  StrReplace(StrReplace(StrReplace(p.text, first, <<"#">>), last, first),
                   <<"#">>, last)

\* What api.translate may return for a protected text, as far as its tokens
\* go: the text as it is, with two tokens exchanged, and with every token
\* written in one of the two ways line 56 names.
CodecReplies(p) ==
    {p.text, SpaceTokens(p.text, p.tokens, TRUE),
     SpaceTokens(p.text, p.tokens, FALSE)}
    \cup (IF Len(p.tokens) >= 2 THEN {SwapTokens(p)} ELSE {})

CodecInit ==
    /\ text \in Texts
    /\ prot = NoProt
    /\ answer = << >>
    /\ restored = << >>
    /\ cpc = "start"
    /\ RepairIdle
    /\ WindowInit
    /\ EngineIdle
    /\ lang = Languages[1]
    /\ pot = [readable |-> TRUE, msgids |-> << >>]
    /\ disk = [l \in LangSet |-> NoFile]

CodecProtect ==
    /\ cpc = "start"
    /\ prot' = ProtectPlaceholders(text)
    /\ cpc' = "protected"
    /\ UNCHANGED <<text, answer, restored, engineVars, repairVars, uiVars>>

\* Lines 190-194, seen from the codec.
CodecTranslate ==
    /\ cpc = "protected"
    /\ answer' \in CodecReplies(prot)
    /\ cpc' = "translated"
    /\ UNCHANGED <<text, prot, restored, engineVars, repairVars, uiVars>>

CodecRestore ==
    /\ cpc = "translated"
    /\ restored' = RestorePlaceholders(answer, prot.tokens)
    /\ cpc' = "restored"
    /\ UNCHANGED <<text, prot, answer, engineVars, repairVars, uiVars>>

CodecNext ==
    \/ CodecProtect
    \/ CodecTranslate
    \/ CodecRestore

SpecCodec == CodecInit /\ [][CodecNext]_vars

-----------------------------------------------------------------------------
(* The main window: Start Translation, the worker thread, the idle queue.  *)

\* Clicks on Start Translation in one behaviour.
MaxClicks == 3

\* Provider calls a worker makes for one language.
MaxCalls == 2

NewThread == [pc |-> "extract", lang |-> 0, calls |-> 0]

WindowStart ==
    /\ WindowInit
    /\ CodecIdle
    /\ RepairIdle
    /\ EngineIdle
    /\ lang = Languages[1]
    /\ pot = [readable |-> TRUE, msgids |-> << >>]
    /\ disk = [l \in LangSet |-> NoFile]

WindowFrame == UNCHANGED <<engineVars, codecVars, repairVars>>

\* _validate_and_set_project accepts a folder.
SelectProject ==
    /\ ~selected_project
    /\ selected_project' = TRUE
    /\ UNCHANGED <<is_translating, threads, idle_queue, clicks>>
    /\ WindowFrame

\* _on_start_translation without the test of is_translating.
OnStartTranslationUnguarded ==
    /\ clicks < MaxClicks
    /\ clicks' = clicks + 1
    /\ IF ~selected_project
       THEN UNCHANGED <<is_translating, threads>>
       ELSE /\ is_translating' = TRUE
            /\ threads' = Append(threads, NewThread)
    /\ UNCHANGED <<selected_project, idle_queue>>
    /\ WindowFrame

\* _on_start_translation: a click on Start Translation.
OnStartTranslation ==
    /\ clicks < MaxClicks
    /\ clicks' = clicks + 1
    /\ IF ~selected_project \/ is_translating
       THEN UNCHANGED <<is_translating, threads>>
       ELSE /\ is_translating' = TRUE
            /\ threads' = Append(threads, NewThread)
    /\ UNCHANGED <<selected_project, idle_queue>>
    /\ WindowFrame

\* A step of worker t that moves it to pc and queues the given callbacks.
WorkerStep(t, pc, queued) ==
    /\ threads' = [threads EXCEPT ![t].pc = pc]
    /\ idle_queue' = idle_queue \o queued
    /\ UNCHANGED <<selected_project, is_translating, clicks>>
    /\ WindowFrame

\* _run_translation up to the call of translate_project: the scan, the
\* extraction and the provider's construction succeed, or one of them raises.
WorkerExtract(t) ==
    /\ threads[t].pc = "extract"
    /\ \/ /\ threads' = [threads EXCEPT ![t] = [pc |-> "loop", lang |-> 1, calls |-> 0]]
          /\ idle_queue' = idle_queue \o <<"label">>
          /\ UNCHANGED <<selected_project, is_translating, clicks>>
          /\ WindowFrame
       \/ WorkerStep(t, "except", <<"label">>)

\* The entry loop of the worker's current language calls api.translate.
WorkerBeginCall(t) ==
    /\ threads[t].pc = "loop"
    /\ threads[t].calls < MaxCalls
    /\ threads' = [threads EXCEPT ![t].pc = "calling", ![t].calls = @ + 1]
    /\ UNCHANGED <<selected_project, is_translating, idle_queue, clicks>>
    /\ WindowFrame

\* api.translate returns or raises; the entry loop goes on either way.
WorkerEndCall(t) ==
    /\ threads[t].pc = "calling"
    /\ WorkerStep(t, "loop", << >>)

\* The language is done: the callback queues its updates, and the loop of
\* translate_project takes the next language or ends.
WorkerLanguageDone(t) ==
    /\ threads[t].pc = "loop"
    /\ threads' = [threads EXCEPT ![t] =
                      IF threads[t].lang < Len(Languages)
                      THEN [pc |-> "loop", lang |-> threads[t].lang + 1, calls |-> 0]
                      ELSE [pc |-> "compile", lang |-> threads[t].lang, calls |-> 0]]
    /\ idle_queue' = Append(idle_queue, "progress")
    /\ UNCHANGED <<selected_project, is_translating, clicks>>
    /\ WindowFrame

\* The rest of the try block: the optional compilation, which may raise,
\* and the closing messages.
WorkerCompile(t) ==
    /\ threads[t].pc = "compile"
    /\ \/ WorkerStep(t, "finally", <<"label">>)
       \/ WorkerStep(t, "except", << >>)

\* The except block that leaves the function without the finally block.
WorkerExceptNoFinally(t) ==
    /\ threads[t].pc = "except"
    /\ WorkerStep(t, "exiting", <<"label">>)

\* The except block queues the error messages.
WorkerExcept(t) ==
    /\ threads[t].pc = "except"
    /\ WorkerStep(t, "finally", <<"label">>)



\* The finally block queues _finish_translation; the function has yet to
\* return.
WorkerFinally(t) ==
    /\ threads[t].pc = "finally"
    /\ WorkerStep(t, "exiting", <<"finish">>)

\* _run_translation returns and the thread ends.
WorkerExit(t) ==
    /\ threads[t].pc = "exiting"
    /\ WorkerStep(t, "done", << >>)

\* The main loop clearing is_translating with whatever callback it runs.
MainIdleClearsAlways ==
    /\ idle_queue # << >>
    /\ idle_queue' = Tail(idle_queue)
    /\ is_translating' = FALSE
    /\ UNCHANGED <<selected_project, threads, clicks>>
    /\ WindowFrame

\* The main loop runs the oldest queued callback; _finish_translation
\* clears is_translating.
MainIdle ==
    /\ idle_queue # << >>
    /\ idle_queue' = Tail(idle_queue)
    /\ is_translating' = IF Head(idle_queue) = "finish" THEN FALSE ELSE is_translating
    /\ UNCHANGED <<selected_project, threads, clicks>>
    /\ WindowFrame

WindowNext ==
    \/ SelectProject
    \/ OnStartTranslation
    \/ MainIdle
    \/ \E t \in 1..Len(threads) : WorkerExtract(t)
    \/ \E t \in 1..Len(threads) : WorkerBeginCall(t)
    \/ \E t \in 1..Len(threads) : WorkerEndCall(t)
    \/ \E t \in 1..Len(threads) : WorkerLanguageDone(t)
    \/ \E t \in 1..Len(threads) : WorkerCompile(t)
    \/ \E t \in 1..Len(threads) : WorkerExcept(t)
    \/ \E t \in 1..Len(threads) : WorkerFinally(t)
    \/ \E t \in 1..Len(threads) : WorkerExit(t)

SpecWindow == WindowStart /\ [][WindowNext]_vars

\* A step of worker t, if it was started.
Worker(t) ==
    /\ t \in 1..Len(threads)
    /\ \/ WorkerExtract(t)
       \/ WorkerBeginCall(t)
       \/ WorkerEndCall(t)
       \/ WorkerLanguageDone(t)
       \/ WorkerCompile(t)
       \/ WorkerExcept(t)
       \/ WorkerFinally(t)
       \/ WorkerExit(t)

\* The window when every started thread keeps being scheduled, every
\* provider call returns or raises, and the main loop keeps running the
\* callbacks queued with GLib.idle_add.
SpecWindowFair ==
    /\ SpecWindow
    /\ WF_vars(MainIdle)
    /\ \A t \in 1..MaxClicks : WF_vars(Worker(t))

\* The workers that are inside api.translate.
InFlight == {t \in 1..Len(threads) : threads[t].pc = "calling"}

\* C19: at no time are two provider calls in flight, whatever the clicks on
\* Start Translation and the timing of the workers and of the main loop.
C19_Sequential == Cardinality(InFlight) <= 1

C19_Witness ==
    /\ clicks > Len(threads)
    /\ Len(threads) >= 2
    /\ threads[1].pc = "done"
    /\ threads[Len(threads)].pc = "calling"

\* The threads that were started and have not ended.
Alive == {t \in 1..Len(threads) : threads[t].pc # "done"}

\* The threads that have not yet queued _finish_translation.
Running == {t \in 1..Len(threads) : threads[t].pc \notin {"exiting", "done"}}

\* C27, as stated: at most one worker thread exists at any time.
C27_OneThread == Cardinality(Alive) <= 1

\* C27, amended: at most one worker thread is at work at any time, a thread
\* being at work until it has queued _finish_translation; is_translating
\* holds while a thread is at work, it is set only by a click that starts a
\* thread and cleared only by the main loop running _finish_translation; a
\* click while a run is in progress starts no thread; the other threads
\* that may exist have queued _finish_translation and only have to return.
C27_OneRunning ==
    /\ [](/\ Cardinality(Running) <= 1
          /\ Running # {} => is_translating)
    /\ [][/\ (~is_translating /\ is_translating')
             => /\ threads' = Append(threads, NewThread)
                /\ clicks' = clicks + 1
          /\ (is_translating /\ ~is_translating')
             => /\ idle_queue # << >>
                /\ Head(idle_queue) = "finish"
                /\ idle_queue' = Tail(idle_queue)
          /\ (is_translating /\ clicks' # clicks) => threads' = threads]_vars

C27_Witness ==
    /\ Cardinality(Alive) = 2
    /\ Cardinality(Running) = 1
    /\ clicks > Len(threads)

\* C28: a run that was started ends: every started thread comes to queue
\* _finish_translation, whichever of its steps raised, is_translating
\* becomes false again after every time it was set, and a click then starts
\* the next run.
C28_RunEnds ==
    /\ \A t \in 1..MaxClicks :
          (t <= Len(threads)) ~> (t <= Len(threads) /\ threads[t].pc = "done")
    /\ is_translating ~> ~is_translating
    /\ [][(~is_translating /\ selected_project /\ clicks' # clicks)
          => (is_translating' /\ Len(threads') = Len(threads) + 1)]_vars

C28_Witness ==
    /\ Len(threads) = MaxClicks
    /\ \A t \in 1..Len(threads) : threads[t].pc = "done"
    /\ ~is_translating
    /\ idle_queue = << >>

-----------------------------------------------------------------------------
(* _validate_placeholders and _fix_placeholders run on bounded texts.      *)

\* Number of pieces an original or a translated text is made of.
MaxPieces == 2

OriginalPieces ==
    { <<"%", "s">>, <<"{", "}">>, <<"%", "(", "n", ")", "s">>, <<"a">> }

\* A translated text may also hold what is left of a placeholder.
TranslatedPieces == OriginalPieces \cup { <<" ">>, <<"%">>, <<"{">> }

TextsOf(pieces) == UNION { {Flatten(ss) : ss \in [1..n -> pieces]} : n \in 0..MaxPieces }

RepairInit ==
    /\ original \in TextsOf(OriginalPieces)
    /\ translated \in TextsOf(TranslatedPieces)
    /\ valid = FALSE
    /\ fixed = << >>
    /\ refixed = << >>
    /\ rpc = "start"
    /\ CodecIdle
    /\ WindowInit
    /\ EngineIdle
    /\ lang = Languages[1]
    /\ pot = [readable |-> TRUE, msgids |-> << >>]
    /\ disk = [l \in LangSet |-> NoFile]

RepairValidate ==
    /\ rpc = "start"
    /\ valid' = ValidatePlaceholders(original, translated)
    /\ rpc' = "validated"
    /\ UNCHANGED <<original, translated, fixed, refixed, codecVars, engineVars, uiVars>>

RepairFix ==
    /\ rpc = "validated"
    /\ fixed' = FixPlaceholders(original, translated)
    /\ rpc' = "fixed"
    /\ UNCHANGED <<original, translated, valid, refixed, codecVars, engineVars, uiVars>>

RepairFixAgain ==
    /\ rpc = "fixed"
    /\ refixed' = FixPlaceholders(original, fixed)
    /\ rpc' = "refixed"
    /\ UNCHANGED <<original, translated, valid, fixed, codecVars, engineVars, uiVars>>

RepairNext ==
    \/ RepairValidate
    \/ RepairFix
    \/ RepairFixAgain

SpecRepair == RepairInit /\ [][RepairNext]_vars

\* The list b is the list a in some order.
IsPermutation(a, b) ==
    /\ Len(a) = Len(b)
    /\ \E f \in [1..Len(a) -> 1..Len(a)] :
          /\ \A i, j \in 1..Len(a) : f[i] = f[j] => i = j
          /\ \A i \in 1..Len(a) : a[i] = b[f[i]]

\* C13: _validate_placeholders holds exactly when, family by family, the
\* placeholders found in the translated text are those found in the
\* original in some order, each as often.
C13_Multiset ==
    rpc # "start"
    => (valid <=> \A k \in 1..Len(Patterns) :
                     IsPermutation(FindAll(Patterns[k], original),
                                   FindAll(Patterns[k], translated)))

C13_Witness ==
    /\ rpc = "validated"
    /\ valid
    /\ Len(AllMatches(original)) >= 2
    /\ PlaceholdersInOrder(original) # PlaceholdersInOrder(translated)

\* C14: a text that passes validation is returned unchanged by
\* _fix_placeholders; so repairing a repaired text that passes validation
\* changes nothing.
C14_Idempotent ==
    /\ (rpc \in {"fixed", "refixed"} /\ valid) => fixed = translated
    /\ (rpc = "refixed" /\ ValidatePlaceholders(original, fixed)) => refixed = fixed

C14_Witness ==
    /\ rpc = "refixed"
    /\ ~valid
    /\ fixed # translated
    /\ ValidatePlaceholders(original, fixed)
    /\ refixed = fixed

\* The repair has run on the pair.
Repaired == rpc \in {"fixed", "refixed"}

\* The translated text holds no placeholder and nothing that starts one.
DroppedAll ==
    /\ AllMatches(translated) = << >>
    /\ "%" \notin Range(translated)
    /\ "{" \notin Range(translated)

\* C23: when the translated text lost every placeholder and holds no
\* corrupted fragment, the repaired text holds every placeholder of the
\* original.
C23_AppendsMissing ==
    (Repaired /\ DroppedAll)
    => \A k \in 1..Len(Patterns) :
          Range(FindAll(Patterns[k], original)) \subseteq Range(FindAll(Patterns[k], fixed))

\* C26: a placeholder occurs in the repaired text at least as often as it
\* occurred both in the original and in the translated text.
C26_KeepsIntact ==
    Repaired
    => \A k \in 1..Len(Patterns) :
          \A x \in Range(FindAll(Patterns[k], original)) :
              Count(FindAll(Patterns[k], fixed), x)
              >= Min(Count(FindAll(Patterns[k], original), x),
                     Count(FindAll(Patterns[k], translated), x))

\* Two matches of the text, of any families, share a character.
Overlapping(t) ==
    LET ms == AllMatches(t)
    IN  \E a, b \in 1..Len(ms) :
            a # b /\ ms[a].start < ms[b].end /\ ms[b].start < ms[a].end

\* C1: protecting a text whose placeholders are well formed (no two of them
\* overlap) and restoring the protected text with its token map gives the
\* text back.
C1_RoundTrip ==
    (cpc = "restored" /\ answer = prot.text /\ ~Overlapping(text)) => restored = text

\* The text holds no character of a token's markup, and no two of its
\* placeholders overlap.
Plain(t) == ~Overlapping(t) /\ "<" \notin Range(t)

\* Position of the token that starts at position i of the text, or 0.
TokenAt(t, i, n) ==
    IF \E k \in 1..n : OccursAt(t, Token(k), i)
    THEN CHOOSE k \in 1..n : OccursAt(t, Token(k), i)
    ELSE 0

\* The text with every token <xk/> replaced, in one pass, by the k-th text
\* of originals.
RECURSIVE SubstFrom(_, _, _)
SubstFrom(t, originals, i) ==
    IF i > Len(t) THEN << >>
    ELSE IF TokenAt(t, i, Len(originals)) > 0
         THEN originals[TokenAt(t, i, Len(originals))]
              \o SubstFrom(t, originals, i + Len(Token(TokenAt(t, i, Len(originals)))))
         ELSE <<t[i]>> \o SubstFrom(t, originals, i + 1)

\* C15: when the reply is the protected text with two tokens exchanged,
\* restoring puts the i-th placeholder of the text wherever token <xi/>
\* stands, and the restored text passes validation against the text.
C15_ByIndex ==
    (cpc = "restored" /\ Len(prot.tokens) >= 2 /\ answer = SwapTokens(prot))
    => /\ restored = SubstFrom(answer, PlaceholdersInOrder(text), 1)
       /\ ValidatePlaceholders(text, restored)

\* The numbers of the tokens <xk/>, k in 1..n, read in the text from left to
\* right.
RECURSIVE TokensRead(_, _, _)
TokensRead(t, n, i) ==
    IF i > Len(t) THEN << >>
    ELSE IF TokenAt(t, i, n) > 0
         THEN <<TokenAt(t, i, n)>> \o TokensRead(t, n, i + Len(Token(TokenAt(t, i, n))))
         ELSE TokensRead(t, n, i + 1)

\* C24: the protected text of a text with N placeholders reads <x1/>, ...,
\* <xN/> from left to right, and the token map pairs <xi/> with the i-th
\* placeholder of the text, one pair for each occurrence; a text without
\* placeholders is returned as it is with an empty map.
C24_Numbering ==
    cpc # "start"
    => /\ TokensRead(prot.text, Len(AllMatches(text)) + 1, 1)
          = [i \in 1..Len(AllMatches(text)) |-> i]
       /\ prot.tokens
          = [i \in 1..Len(AllMatches(text)) |-> <<Token(i), PlaceholdersInOrder(text)[i]>>]
       /\ AllMatches(text) = << >> => prot = [text |-> text, tokens |-> << >>]

\* C16: a reply whose tokens carry a space before the slash, or a space
\* after the opening marker, is restored to the text.
C16_Variants ==
    (/\ cpc = "restored"
     /\ Plain(text)
     /\ answer \in {SpaceTokens(prot.text, prot.tokens, TRUE),
                   SpaceTokens(prot.text, prot.tokens, FALSE)})
    => restored = text

====
